---- MODULE Spec2Model ----
(***************************************************************************)
(* Model of objector (src/objector.go): a session of main's credential     *)
(* scan.  The browser's global object graph is scanned by the script of    *)
(* the immediate pass (lines 682-804) and then, on every ticker tick, by   *)
(* the script of the periodic pass (lines 852-955); the Go side parses the *)
(* result, prints the matches whose key is not yet in seenSecrets and      *)
(* keeps the last pass's stats, which it prints when the context is done.  *)
(*                                                                         *)
(* Strings (member names, paths, values, keys) are sequences of one-char   *)
(* strings, so that concatenation, split('.'), includes() and the regular  *)
(* expressions are computed character by character.                        *)
(***************************************************************************)
EXTENDS Integers, Sequences, FiniteSets, TLC

VARIABLES
    graph,        \* the page's live object graph: identity -> ordered members
    custom,       \* the --string flag (<<>> when not given)
    winCustom,    \* window.__customSearchString as the browser holds it
    ctxDone,      \* the context's deadline has passed
    pc,           \* where main's scan ActionFunc is
    seenSecrets,  \* main's seenSecrets map (its key set)
    response,     \* main's response struct (Matches, Stats)
    finalStats,   \* main's finalStats struct
    printed,      \* rows handed to printTableRow, in order
    statsOut,     \* the final statistics boxes printed, in order
    ticks,        \* periodic iterations taken so far
    version,      \* number of page mutations so far
    last,         \* history: the record of the latest pass attempted
    okVer,        \* history: the graph version the latest successful pass saw
    sumScanned,   \* history: objectsScanned summed over the successful passes
    patterns,     \* the ObjectMonitor's patterns map (Go): name -> rule
    jsPatterns,   \* this.patterns of the injected ObjectMonitor (a JS Map)
    registered,   \* history: the registrations made on each of the two
    failStreak    \* history: the failed passes in a row up to now

vars == <<graph, custom, winCustom, ctxDone, pc, seenSecrets, response,
          finalStats, printed, statsOut, ticks, version, last, okVer, sumScanned,
          patterns, jsPatterns, registered, failStreak>>

registry == <<patterns, jsPatterns, registered>>

----------------------------------------------------------------------------
(* Bounds of the model *)

MaxTicks == 2

MaxMutations == 1

MaxRegs == 2

MaxStreakTicks == 3

(* Program constant: the depth limit of both scan scripts *)
MaxDepth == 5

----------------------------------------------------------------------------
(* Characters and strings *)

Digit == {"0","1","2","3","4","5","6","7","8","9"}

Upper == {"A","B","C","D","E","F","G","H","I","J","K","L","M",
          "N","O","P","Q","R","S","T","U","V","W","X","Y","Z"}

Lower == {"a","b","c","d","e","f","g","h","i","j","k","l","m",
          "n","o","p","q","r","s","t","u","v","w","x","y","z"}

Alnum == Upper \cup Lower \cup Digit

Rep(c, n) == [i \in 1..n |-> c]

\* s has the literal lit at position i
HasAt(s, i, lit) ==
    /\ i >= 1
    /\ i + Len(lit) - 1 <= Len(s)
    /\ \A k \in 1..Len(lit) : s[i + k - 1] = lit[k]

\* every character of s[i..j] is in class
AllIn(s, i, j, class) == \A k \in i..j : s[k] \in class

\* String.prototype.includes
includes(s, lit) == \E i \in 1..(Len(s) + 1) : HasAt(s, i, lit)

\* path.split('.').pop(): the text after the last '.', the whole text if none
LastSegment(path) ==
    LET dots == {i \in 1..Len(path) : path[i] = "."}
    IN  IF dots = {} THEN path
        ELSE LET dot == CHOOSE i \in dots : \A j \in dots : j <= i
             IN  SubSeq(path, dot + 1, Len(path))

\* number of '.'-separated segments of a path ('' has none)
Segments(path) ==
    IF path = <<>> THEN 0
    ELSE 1 + Cardinality({i \in 1..Len(path) : path[i] = "."})

----------------------------------------------------------------------------
(* The regular expressions of the two scan scripts *)

UpperDigit == Upper \cup Digit

AKIA == <<"A","K","I","A">>

\* /AKIA[A-Z0-9]{16}/
reAccessKey(v) ==
    \E i \in 1..(Len(v) - 19) :
        /\ HasAt(v, i, AKIA)
        /\ AllIn(v, i + 4, i + 19, UpperDigit)

secret == <<"s","e","c","r","e","t">>

\* /secret[a-zA-Z0-9]{40}/
reSecretKey(v) ==
    \E i \in 1..(Len(v) - 45) :
        /\ HasAt(v, i, secret)
        /\ AllIn(v, i + 6, i + 45, Alnum)

KeyKinds == { <<"R","S","A">>, <<"O","P","E","N","S","S","H">>, <<"D","S","A">>,
              <<"E","C">>, <<"P","G","P">> }

PemHeader(kind) ==
    Rep("-", 5) \o <<"B","E","G","I","N"," ">> \o kind
      \o <<" ","P","R","I","V","A","T","E"," ","K","E","Y">> \o Rep("-", 5)

PemHeaders == {PemHeader(kind) : kind \in KeyKinds}

\* /-----BEGIN (?:RSA|OPENSSH|DSA|EC|PGP) PRIVATE KEY-----/
rePrivateKey(v) ==
    \E i \in 1..Len(v) : v[i] = "-" /\ \E h \in PemHeaders : HasAt(v, i, h)

eyJ == <<"e","y","J">>

JwtSeg == Alnum \cup {"-", "_", "="}

JwtTail == Alnum \cup {"-", "_", ".", "+", "/", "="}

\* /eyJ[A-Za-z0-9-_=]+\.[A-Za-z0-9-_=]+\.?[A-Za-z0-9-_.+/=]*$/
\* '.' is not in the first class, so the first segment ends at the first '.';
\* after one character of the second segment the tail class takes the rest.
reJWT(v) ==
    \E i \in 1..Len(v) :
        /\ HasAt(v, i, eyJ)
        /\ \E j \in (i + 4)..(Len(v) - 1) :
              /\ AllIn(v, i + 3, j - 1, JwtSeg)
              /\ v[j] = "."
              /\ v[j + 1] \in JwtSeg
              /\ AllIn(v, j + 2, Len(v), JwtTail)

----------------------------------------------------------------------------
(* The scan scripts.  st is the script's local state: visited, stats and   *)
(* matches as in the source, plus a record of what the traversal did,      *)
(* which the script does not keep: calls (invocations of scanObject),      *)
(* entered (the composites entered, with path and depth) and classified    *)
(* (the strings handed to checkValue, with the composite holding them).    *)

NewScan ==
    [ visited        |-> {},
      objectsScanned |-> 0,
      matchesFound   |-> 0,
      matches        |-> <<>>,
      calls          |-> 0,
      entered        |-> <<>>,
      classified     |-> <<>> ]

\* stats.matchesFound++; matches.push({pattern, path, value, description})
push(st, name, path, value) ==
    [st EXCEPT !.matchesFound = @ + 1,
               !.matches = Append(@, [pattern |-> name, path |-> path, value |-> value])]

\* variant of checkValue: no return after the custom string's match
checkValueCustomFallsThrough(w, st, value, path) ==
    LET s1 == IF w # <<>> /\ includes(value, w)
                  THEN push(st, "Custom String", path, value) ELSE st
    IN  IF reAccessKey(value) THEN push(s1, "AWS Access Key", path, value)
        ELSE IF reSecretKey(value) THEN push(s1, "AWS Secret Key", path, value)
        ELSE IF rePrivateKey(value) THEN push(s1, "Private Key", path, value)
        ELSE IF reJWT(value) THEN push(s1, "JWT Token", path, value)
        ELSE s1

\* checkValue of the immediate pass; w is window.__customSearchString
checkValue(w, st, value, path) ==
    IF w # <<>> /\ includes(value, w)
        THEN push(st, "Custom String", path, value)
    ELSE IF w = <<>>
        THEN IF reAccessKey(value) THEN push(st, "AWS Access Key", path, value)
             ELSE IF reSecretKey(value) THEN push(st, "AWS Secret Key", path, value)
             ELSE IF rePrivateKey(value) THEN push(st, "Private Key", path, value)
             ELSE IF reJWT(value) THEN push(st, "JWT Token", path, value)
             ELSE st
    ELSE st

\* variant of checkValuePeriodic: no return after a match
checkValueNoReturn(st, value, path) ==
    LET s1 == IF reAccessKey(value) THEN push(st, "AWS Access Key", path, value) ELSE st
        s2 == IF reSecretKey(value) THEN push(s1, "AWS Secret Key", path, value) ELSE s1
        s3 == IF rePrivateKey(value) THEN push(s2, "Private Key", path, value) ELSE s2
    IN  IF reJWT(value) THEN push(s3, "JWT Token", path, value) ELSE s3

\* checkValue of the periodic pass: it does not read window.__customSearchString
checkValuePeriodic(st, value, path) ==
    IF reAccessKey(value) THEN push(st, "AWS Access Key", path, value)
    ELSE IF reSecretKey(value) THEN push(st, "AWS Secret Key", path, value)
    ELSE IF rePrivateKey(value) THEN push(st, "Private Key", path, value)
    ELSE IF reJWT(value) THEN push(st, "JWT Token", path, value)
    ELSE st

ignoredPaths ==
    { <<"p","e","r","f","o","r","m","a","n","c","e">>,
      <<"l","o","c","a","l","S","t","o","r","a","g","e">>,
      <<"s","e","s","s","i","o","n","S","t","o","r","a","g","e">>,
      <<"i","n","d","e","x","e","d","D","B">>,
      <<"w","e","b","k","i","t","S","t","o","r","a","g","e","I","n","f","o">>,
      <<"c","h","r","o","m","e">>,
      <<"d","o","c","u","m","e","n","t">>,
      <<"h","i","s","t","o","r","y">> }

\* Member values: a string, a composite (by identity), an accessor that
\* throws when read, or anything else (number, function, null, ...)
Str(s) == [t |-> "str", s |-> s, o |-> 1]

Obj(o) == [t |-> "obj", s |-> <<>>, o |-> o]

Thrower == [t |-> "throw", s |-> <<>>, o |-> 1]

Other == [t |-> "other", s |-> <<>>, o |-> 1]

\* variant of newPath: the parent's path is left out
newPathNoParent(path, prop) == prop

\* const newPath = path ? path + '.' + prop : prop
newPath(path, prop) == IF path # <<>> THEN path \o <<".">> \o prop ELSE prop

RECURSIVE scanObject(_, _, _, _, _, _, _)
RECURSIVE scanProps(_, _, _, _, _, _, _, _)

\* the composite entered: visited.add(obj); stats.objectsScanned++
enter(st, obj, path, depth) ==
    [st EXCEPT !.calls = @ + 1,
               !.visited = @ \cup {obj},
               !.objectsScanned = @ + 1,
               !.entered = Append(@, [obj |-> obj, path |-> path, depth |-> depth])]

\* the call returns at once
skip(st) == [st EXCEPT !.calls = @ + 1]

\* variant of scanObject: objectsScanned counted before the visited check
scanObjectCountFirst(g, w, periodic, st, obj, path, depth) ==
    IF depth > MaxDepth THEN skip(st)
    ELSE IF obj \in st.visited THEN [skip(st) EXCEPT !.objectsScanned = @ + 1]
    ELSE IF LastSegment(path) \in ignoredPaths THEN skip(st)
    ELSE scanProps(g, w, periodic, enter(st, obj, path, depth), obj, path, depth, 1)

\* variant of scanObject: the depth limit one too large
scanObjectDeeper(g, w, periodic, st, obj, path, depth) ==
    IF depth > MaxDepth + 1 THEN skip(st)
    ELSE IF obj \in st.visited THEN skip(st)
    ELSE IF LastSegment(path) \in ignoredPaths THEN skip(st)
    ELSE scanProps(g, w, periodic, enter(st, obj, path, depth), obj, path, depth, 1)

\* variant of scanObject: the whole path looked up in ignoredPaths
scanObjectWholePath(g, w, periodic, st, obj, path, depth) ==
    IF depth > MaxDepth THEN skip(st)
    ELSE IF obj \in st.visited THEN skip(st)
    ELSE IF path \in ignoredPaths THEN skip(st)
    ELSE scanProps(g, w, periodic, enter(st, obj, path, depth), obj, path, depth, 1)

\* function scanObject(obj, path = '', depth = 0); periodic selects the
\* script (the two scripts differ in checkValue only)
scanObject(g, w, periodic, st, obj, path, depth) ==
    IF depth > MaxDepth THEN skip(st)
    ELSE IF obj \in st.visited THEN skip(st)
    ELSE IF LastSegment(path) \in ignoredPaths THEN skip(st)
    ELSE scanProps(g, w, periodic, enter(st, obj, path, depth), obj, path, depth, 1)

\* variant of scanProps: no try/catch around the member, so that a throwing
\* read ends the enumeration of the composite (the outer catch)
scanPropsAbort(g, w, periodic, st, obj, path, depth, i) ==
    IF i > Len(g[obj]) THEN st
    ELSE LET prop  == g[obj][i][1]
             value == g[obj][i][2]
             np    == newPath(path, prop)
             given == [st EXCEPT !.classified =
                          Append(@, [obj |-> obj, path |-> np, value |-> value.s])]
         IN  CASE value.t = "str" ->
                    scanProps(g, w, periodic,
                              IF periodic THEN checkValuePeriodic(given, value.s, np)
                                          ELSE checkValue(w, given, value.s, np),
                              obj, path, depth, i + 1)
               [] value.t = "obj" ->
                    scanProps(g, w, periodic,
                              scanObject(g, w, periodic, st, value.o, np, depth + 1),
                              obj, path, depth, i + 1)
               [] value.t = "throw" -> st
               [] OTHER -> scanProps(g, w, periodic, st, obj, path, depth, i + 1)

\* for (const prop in obj) { try { ... } catch (e) {} }, from the i-th member
scanProps(g, w, periodic, st, obj, path, depth, i) ==
    IF i > Len(g[obj]) THEN st
    ELSE LET prop  == g[obj][i][1]
             value == g[obj][i][2]
             np    == newPath(path, prop)
             given == [st EXCEPT !.classified =
                          Append(@, [obj |-> obj, path |-> np, value |-> value.s])]
             st2   == CASE value.t = "str" ->
                               IF periodic THEN checkValuePeriodic(given, value.s, np)
                                           ELSE checkValue(w, given, value.s, np)
                        []   value.t = "obj" ->
                               scanObject(g, w, periodic, st, value.o, np, depth + 1)
                        []   OTHER -> st
         IN  scanProps(g, w, periodic, st2, obj, path, depth, i + 1)

\* The whole script: scanObject(globalObject), then the matches and stats
Root == 1

runScript(g, w, periodic) == scanObject(g, w, periodic, NewScan, Root, <<>>, 0)

----------------------------------------------------------------------------
(* The Go side of a pass *)

\* secretKey := match.Path + ":" + match.Value
secretKey(match) == match.path \o <<":">> \o match.value

RECURSIVE printNew(_, _, _, _)

\* variant of printNew: the key of a printed row is not recorded
printNewNoRecord(matches, i, seen, rows) ==
    IF i > Len(matches) THEN [seen |-> seen, rows |-> rows]
    ELSE IF secretKey(matches[i]) \notin seen
        THEN printNew(matches, i + 1, seen, Append(rows, matches[i]))
    ELSE printNew(matches, i + 1, seen, rows)

\* variant of printNew: a new row is put before the rows already collected
printNewReversed(matches, i, seen, rows) ==
    IF i > Len(matches) THEN [seen |-> seen, rows |-> rows]
    ELSE IF secretKey(matches[i]) \notin seen
        THEN printNew(matches, i + 1, seen \cup {secretKey(matches[i])},
                      <<matches[i]>> \o rows)
    ELSE printNew(matches, i + 1, seen, rows)

\* for _, match := range response.Matches { if !seenSecrets[secretKey] {...} }
\* from the i-th match; yields the new seenSecrets and the rows printed
printNew(matches, i, seen, rows) ==
    IF i > Len(matches) THEN [seen |-> seen, rows |-> rows]
    ELSE IF secretKey(matches[i]) \notin seen
        THEN printNew(matches, i + 1, seen \cup {secretKey(matches[i])},
                      Append(rows, matches[i]))
    ELSE printNew(matches, i + 1, seen, rows)

RECURSIVE jsStringLiteral(_)

\* window.__customSearchString = "%s": the flag's text read as the body of a
\* JavaScript string literal (a backslash escapes the character after it)
jsStringLiteral(s) ==
    IF s = <<>> THEN <<>>
    ELSE IF Head(s) = "\\" /\ Len(s) >= 2
        THEN <<s[2]>> \o jsStringLiteral(SubSeq(s, 3, Len(s)))
    ELSE <<Head(s)>> \o jsStringLiteral(Tail(s))

ZeroStats == [objectsScanned |-> 0, matchesFound |-> 0]

statsOf(scan) ==
    [objectsScanned |-> scan.objectsScanned, matchesFound |-> scan.matchesFound]

\* What chromedp.Evaluate and json.Unmarshal can make of a pass: the script's
\* result, the script's own {error: ...} result (its outer catch), an
\* unparsable result, or an evaluation error
Outcomes == {"ok", "caught", "badJSON", "evalErr"}

\* The (path, value) pairs of a sequence of matches
pairs(matches) == { <<matches[i].path, matches[i].value>> : i \in 1..Len(matches) }

\* The record kept of the latest pass: "failed" is an evaluation error or an
\* unparsable result; ver is the graph version the pass saw and prevOk the
\* one the preceding successful pass saw (-1 when there was none); offered
\* is the set of (path, value) pairs the earlier passes handed to the
\* deduplication loop
passRecord(script, outcome, scan, rows) ==
    [ script |-> script,
      outcome |-> IF outcome \in {"badJSON", "evalErr"} THEN "failed" ELSE outcome,
      ver |-> version, prevOk |-> okVer,
      offered |-> last.offered \cup pairs(last.scan.matches),
      scan |-> scan, admitted |-> rows ]

----------------------------------------------------------------------------
(* Inputs: the strings and graphs a page may hold, the --string flag *)

vAccess == AKIA \o Rep("Q", 16)

vColon == <<"b", ":">> \o vAccess

vSecret == secret \o Rep("x", 40)

vBoth == secret \o vAccess \o Rep("x", 20)

vPem == PemHeader(<<"R","S","A">>)

vJwt == <<"e","y","J","h",".","b">>

vJwtPem == vPem \o <<" ">> \o vJwt

vPlain == <<"h","i">>

\* a 32-character token and a bare 40-character token
vToken32 == Rep("k", 32)

vBare40 == Rep("w", 40)

Literal == <<"s","k","_">>

vLit == Literal \o vAccess

vLitOnly == Literal \o <<"x">>

vUpperLit == <<"S","K","_">> \o vAccess

\* the --string flag: not given, or a text without quote or backslash
CustomStrings == { <<>>, Literal }

customProp == <<"_","_","c","u","s","t","o","m","S","e","a","r","c","h","S","t","r","i","n","g">>

history == <<"h","i","s","t","o","r","y">>

chrome == <<"c","h","r","o","m","e">>

\* root = {a: "AKIA"+"Q"*16, b: {c: "AKIA"+"Q"*16}}
GScenario ==
    << << <<<<"a">>, Str(vAccess)>>, <<<<"b">>, Obj(2)>> >>,
       << <<<<"c">>, Str(vAccess)>> >>,
       <<>>, <<>>, <<>>, <<>>, <<>> >>

\* a self-loop on the root and a cycle of length two
GCycle ==
    << << <<<<"s">>, Obj(1)>>, <<<<"x">>, Obj(2)>>, <<<<"u">>, Str(vUpperLit)>> >>,
       << <<<<"y">>, Str(vLit)>>, <<<<"z">>, Str(vLitOnly)>>, <<<<"r">>, Obj(1)>>,
          <<<<"m">>, Obj(2)>> >>,
       <<>>, <<>>, <<>>, <<>>, <<>> >>

\* a chain of seven composites, each holding a matching string, and a
\* shortcut x from the root to the sixth
GChain ==
    << << <<<<"v">>, Str(vAccess)>>, <<<<"n">>, Obj(2)>>, <<<<"x">>, Obj(6)>> >>,
       << <<<<"v">>, Str(vAccess)>>, <<<<"n">>, Obj(3)>> >>,
       << <<<<"v">>, Str(vAccess)>>, <<<<"n">>, Obj(4)>> >>,
       << <<<<"v">>, Str(vAccess)>>, <<<<"n">>, Obj(5)>> >>,
       << <<<<"v">>, Str(vAccess)>>, <<<<"n">>, Obj(6)>> >>,
       << <<<<"v">>, Str(vAccess)>>, <<<<"n">>, Obj(7)>> >>,
       << <<<<"v">>, Str(vAccess)>> >> >>

\* 2 and 5 are reachable through ignored names only; 4 also through b.k
GIgnored ==
    << << <<history, Obj(2)>>, <<chrome, Obj(4)>>, <<<<"b">>, Obj(3)>> >>,
       << <<<<"k">>, Str(vAccess)>>, <<<<"d">>, Obj(5)>> >>,
       << <<<<"k">>, Obj(4)>>, <<history, Obj(2)>> >>,
       << <<<<"t">>, Str(vJwt)>> >>,
       << <<<<"k">>, Str(vPem)>> >>,
       <<>>, <<>> >>

\* member names with ':' in them: two findings, one key
GColon ==
    << << <<<<"a">>, Str(vColon)>>, <<<<"a",":","b">>, Str(vAccess)>> >>,
       <<>>, <<>>, <<>>, <<>>, <<>>, <<>> >>

\* every kind of member value, and strings that several patterns match
GKinds ==
    << << <<<<"m">>, Str(vBoth)>>, <<<<"t">>, Thrower>>, <<<<"s">>, Str(vSecret)>>,
          <<<<"p">>, Str(vPem)>>, <<<<"o">>, Other>>, <<<<"q">>, Str(vJwtPem)>>,
          <<<<"j">>, Str(vJwt)>>, <<<<"h">>, Str(vPlain)>>,
          <<<<"k">>, Str(vToken32)>>, <<<<"w">>, Str(vBare40)>> >>,
       <<>>, <<>>, <<>>, <<>>, <<>>, <<>> >>

\* member names with '.' in them
GDots ==
    << << <<<<"a",".","b">>, Str(vAccess)>>, <<<<"a">>, Obj(2)>> >>,
       << <<<<"b">>, Str(vAccess)>>, <<<<"n",".","n">>, Obj(3)>> >>,
       << <<<<"n",".","n">>, Obj(4)>> >>,
       << <<<<"n",".","n">>, Obj(5)>> >>,
       << <<<<"n",".","n">>, Obj(6)>> >>,
       << <<<<"v">>, Str(vJwt)>> >>,
       <<>> >>

Graphs == {GScenario, GCycle, GChain, GIgnored, GColon, GKinds, GDots}

Objs == 1..7

\* what page scripts may assign between passes
MutObjs == {1, 2}

MutNames == { <<"a">>, <<"c">> }

MutValues == { Str(vLit) }

IndexOf(members, name) == {i \in 1..Len(members) : members[i][1] = name}

\* obj[name] = value: in place when the member exists, else appended
setMember(members, name, value) ==
    IF IndexOf(members, name) # {}
        THEN [i \in 1..Len(members) |->
                 IF members[i][1] = name THEN <<name, value>> ELSE members[i]]
    ELSE Append(members, <<name, value>>)

RECURSIVE deleteMember(_, _)

\* delete obj[name]
deleteMember(members, name) ==
    IF members = <<>> THEN <<>>
    ELSE IF Head(members)[1] = name THEN Tail(members)
    ELSE <<Head(members)>> \o deleteMember(Tail(members), name)

----------------------------------------------------------------------------
(* The pattern registries: the patterns map of the Go ObjectMonitor and the *)
(* Map of the ObjectMonitor class of the injected monitoring script.  A     *)
(* pattern is a string or a RegExp, told apart by kind.                     *)

strPattern(src) == [kind |-> "string", src |-> src, flags |-> ""]

regExp(src, flags) == [kind |-> "regexp", src |-> src, flags |-> flags]

registration(name, pattern, description) ==
    [name |-> name, pattern |-> pattern, description |-> description]

\* m.patterns[name] = struct{ pattern, description }{...}
goMapSet(m, name, pattern, description) ==
    [n \in DOMAIN m \cup {name} |->
        IF n = name THEN [pattern |-> pattern, description |-> description] ELSE m[n]]

\* Map.prototype.set: a present key keeps its place, a new key goes last
jsMapSet(m, name, value) ==
    IF \E i \in 1..Len(m) : m[i].name = name
        THEN [i \in 1..Len(m) |->
                 IF m[i].name = name THEN [name |-> name, value |-> value] ELSE m[i]]
    ELSE Append(m, [name |-> name, value |-> value])

\* if (!(pattern instanceof RegExp)) pattern = new RegExp(pattern)
toRegExp(pattern) ==
    IF pattern.kind = "regexp" THEN pattern ELSE regExp(pattern.src, "")

\* addPattern(name, pattern, description = '') of the injected class
jsAddPattern(m, name, pattern, description) ==
    jsMapSet(m, name, [pattern |-> toRegExp(pattern), description |-> description])

\* The five assignments of NewObjectMonitor, in order
GoDefaults ==
    << registration("AWS Access Key", strPattern("\\b(AKIA|ASIA)[A-Z0-9]{16}\\b"),
                    "AWS Access Key ID"),
       registration("AWS Secret Key", strPattern("\\b[0-9a-zA-Z/+]{40}\\b"),
                    "AWS Secret Access Key"),
       registration("Private Key",
                    strPattern("-----BEGIN (RSA|DSA|EC|OPENSSH) PRIVATE KEY-----"),
                    "Private Key File"),
       registration("API Key", strPattern("\\b[a-zA-Z0-9]{32,}\\b"), "Generic API Key"),
       registration("JWT Token",
                    strPattern("\\bey[A-Za-z0-9-_=]+\\.[A-Za-z0-9-_=]+\\.?[A-Za-z0-9-_.+/=]*\\b"),
                    "JWT Token") >>

RECURSIVE goRegisterAll(_, _, _)

goRegisterAll(m, regs, i) ==
    IF i > Len(regs) THEN m
    ELSE goRegisterAll(goMapSet(m, regs[i].name, regs[i].pattern, regs[i].description),
                       regs, i + 1)

\* patterns := make(map[string]struct{...}), then the five assignments
NewObjectMonitor == goRegisterAll(<<>>, GoDefaults, 1)

\* The five addPattern calls of the monitoring script, in order
ScriptDefaults ==
    << registration("AWS Access Key", regExp("\\\\b(AKIA|ASIA)[A-Z0-9]{16}\\\\b", ""),
                    "AWS Access Key ID"),
       registration("AWS Secret Key",
                    regExp("\\\\b[A-Za-z0-9/+=]{40}(?![A-Za-z0-9/+=])", ""),
                    "AWS Secret Access Key"),
       registration("Private Key",
                    regExp("-----BEGIN (?:RSA|OPENSSH|DSA|EC|PGP) PRIVATE KEY-----", ""),
                    "Private Key Header"),
       registration("API Key",
                    regExp("(?:api[_-]?key|api[_-]?secret|client[_-]?secret)['\\\\\"]?\\\\s*[:=]\\\\s*['\"]([a-zA-Z0-9_\\\\-]{32,})['\"]", "i"),
                    "API Key Assignment"),
       registration("JWT Token",
                    regExp("eyJ[A-Za-z0-9-_=]+\\\\.[A-Za-z0-9-_=]+\\\\.?[A-Za-z0-9-_.+/=]*$", ""),
                    "JWT Token") >>

RECURSIVE jsRegisterAll(_, _, _)

jsRegisterAll(m, regs, i) ==
    IF i > Len(regs) THEN m
    ELSE jsRegisterAll(jsAddPattern(m, regs[i].name, regs[i].pattern, regs[i].description),
                       regs, i + 1)

\* this.patterns = new Map(), then monitor.addPattern(...).addPattern(...)...
MonitoringScriptPatterns == jsRegisterAll(<<>>, ScriptDefaults, 1)

\* what a caller may register
RegNames == {"JWT Token", "Slack Token"}

RegSources == {"xox[baprs]-[0-9a-zA-Z-]+", "ey[A-Za-z0-9]+"}

RegDescriptions == {"", "token"}

----------------------------------------------------------------------------
(* The session *)

NoPass ==
    [ script |-> "none", outcome |-> "none", ver |-> 0, prevOk |-> -1,
      offered |-> {}, scan |-> NewScan, admitted |-> <<>> ]

Init ==
    /\ custom \in CustomStrings
    /\ winCustom = jsStringLiteral(custom)
    /\ \E g \in Graphs :
          graph = IF custom = <<>> THEN g
                  ELSE [g EXCEPT ![Root] = Append(@, <<customProp, Str(winCustom)>>)]
    /\ ctxDone = FALSE
    /\ pc = "initial"
    /\ seenSecrets = {}
    /\ response = [matches |-> <<>>, stats |-> ZeroStats]
    /\ finalStats = ZeroStats
    /\ printed = <<>>
    /\ statsOut = <<>>
    /\ ticks = 0
    /\ version = 0
    /\ last = NoPass
    /\ okVer = -1
    /\ sumScanned = 0
    /\ patterns = NewObjectMonitor
    /\ jsPatterns = MonitoringScriptPatterns
    /\ registered = [go |-> GoDefaults, js |-> ScriptDefaults]
    /\ failStreak = 0

\* The page assigns a member between two passes (after the deadline no pass
\* reads the graph any more)
PageSet ==
    /\ UNCHANGED <<registry, failStreak>>
    /\ pc = "loop"
    /\ ~ctxDone
    /\ version < MaxMutations
    /\ \E o \in MutObjs, n \in MutNames, v \in MutValues :
          /\ setMember(graph[o], n, v) # graph[o]
          /\ graph' = [graph EXCEPT ![o] = setMember(@, n, v)]
    /\ version' = version + 1
    /\ UNCHANGED <<custom, winCustom, ctxDone, pc, seenSecrets, response, finalStats,
                   printed, statsOut, ticks, last, okVer, sumScanned>>

\* The page deletes a member between two passes
PageDelete ==
    /\ UNCHANGED <<registry, failStreak>>
    /\ pc = "loop"
    /\ ~ctxDone
    /\ version < MaxMutations
    /\ \E o \in MutObjs, n \in MutNames :
          /\ IndexOf(graph[o], n) # {}
          /\ graph' = [graph EXCEPT ![o] = deleteMember(@, n)]
    /\ version' = version + 1
    /\ UNCHANGED <<custom, winCustom, ctxDone, pc, seenSecrets, response, finalStats,
                   printed, statsOut, ticks, last, okVer, sumScanned>>

\* context.WithTimeout: the deadline passes
Timeout ==
    /\ UNCHANGED <<registry, failStreak>>
    /\ pc \in {"initial", "loop"}
    /\ ~ctxDone
    /\ ctxDone' = TRUE
    /\ UNCHANGED <<graph, custom, winCustom, pc, seenSecrets, response, finalStats,
                   printed, statsOut, ticks, version, last, okVer, sumScanned>>

\* The immediate pass (lines 682-836): a failed evaluation or an unparsable
\* result returns from the ActionFunc; otherwise the new matches are printed
\* and the ticker loop is entered
InitialPass ==
    /\ UNCHANGED registry
    /\ pc = "initial"
    /\ \E outcome \in (IF ctxDone THEN {"evalErr"} ELSE Outcomes) :
          LET scan == IF outcome = "ok" THEN runScript(graph, winCustom, FALSE) ELSE NewScan
              resp == IF outcome = "ok"
                         THEN [matches |-> scan.matches, stats |-> statsOf(scan)]
                         ELSE response
              new  == printNew(resp.matches, 1, seenSecrets, <<>>)
          IN  IF outcome \in {"evalErr", "badJSON"}
                  THEN /\ pc' = "returned"
                       /\ last' = passRecord("initial", outcome, NewScan, <<>>)
                       /\ failStreak' = failStreak + 1
                       /\ UNCHANGED <<seenSecrets, response, printed, okVer, sumScanned>>
              ELSE /\ pc' = "loop"
                   /\ failStreak' = 0
                   /\ response' = resp
                   /\ seenSecrets' = new.seen
                   /\ printed' = printed \o new.rows
                   /\ last' = passRecord("initial", outcome, scan, new.rows)
                   /\ okVer' = IF outcome = "ok" THEN version ELSE okVer
                   /\ sumScanned' = sumScanned + scan.objectsScanned
    /\ UNCHANGED <<graph, custom, winCustom, ctxDone, finalStats, statsOut, ticks, version>>

\* variant of TickUpTo: finalStats = response.Stats also after a failed pass
TickUpToStatsAlways(bound) ==
    /\ UNCHANGED registry
    /\ pc = "loop"
    /\ ticks < bound
    /\ ticks' = ticks + 1
    /\ \E outcome \in (IF ctxDone THEN {"evalErr"} ELSE Outcomes) :
          LET scan == IF outcome = "ok" THEN runScript(graph, winCustom, TRUE) ELSE NewScan
              resp == IF outcome = "ok"
                         THEN [matches |-> scan.matches, stats |-> statsOf(scan)]
                         ELSE response
              new  == printNew(resp.matches, 1, seenSecrets, <<>>)
          IN  IF outcome \in {"evalErr", "badJSON"}
                  THEN /\ last' = passRecord("periodic", outcome, NewScan, <<>>)
                       /\ failStreak' = failStreak + 1
                       /\ finalStats' = response.stats
                       /\ UNCHANGED <<seenSecrets, response, printed, okVer, sumScanned>>
              ELSE /\ failStreak' = 0
                   /\ response' = resp
                   /\ seenSecrets' = new.seen
                   /\ printed' = printed \o new.rows
                   /\ finalStats' = resp.stats
                   /\ last' = passRecord("periodic", outcome, scan, new.rows)
                   /\ okVer' = IF outcome = "ok" THEN version ELSE okVer
                   /\ sumScanned' = sumScanned + scan.objectsScanned
    /\ UNCHANGED <<graph, custom, winCustom, ctxDone, pc, statsOut, version>>

\* case <-ticker.C (lines 847-976): a failed pass continues the loop;
\* otherwise the new matches are printed and finalStats = response.Stats
TickUpTo(bound) ==
    /\ UNCHANGED registry
    /\ pc = "loop"
    /\ ticks < bound
    /\ ticks' = ticks + 1
    /\ \E outcome \in (IF ctxDone THEN {"evalErr"} ELSE Outcomes) :
          LET scan == IF outcome = "ok" THEN runScript(graph, winCustom, TRUE) ELSE NewScan
              resp == IF outcome = "ok"
                         THEN [matches |-> scan.matches, stats |-> statsOf(scan)]
                         ELSE response
              new  == printNew(resp.matches, 1, seenSecrets, <<>>)
          IN  IF outcome \in {"evalErr", "badJSON"}
                  THEN /\ last' = passRecord("periodic", outcome, NewScan, <<>>)
                       /\ failStreak' = failStreak + 1
                       /\ UNCHANGED <<seenSecrets, response, printed, finalStats,
                                      okVer, sumScanned>>
              ELSE /\ failStreak' = 0
                   /\ response' = resp
                   /\ seenSecrets' = new.seen
                   /\ printed' = printed \o new.rows
                   /\ finalStats' = resp.stats
                   /\ last' = passRecord("periodic", outcome, scan, new.rows)
                   /\ okVer' = IF outcome = "ok" THEN version ELSE okVer
                   /\ sumScanned' = sumScanned + scan.objectsScanned
    /\ UNCHANGED <<graph, custom, winCustom, ctxDone, pc, statsOut, version>>

\* variant of Tick: two passes overlap, each deduplicating its matches
\* against the seenSecrets it found when it started, and both report
TickOverlapping ==
    /\ UNCHANGED <<registry, failStreak>>
    /\ pc = "loop"
    /\ ~ctxDone
    /\ ticks < MaxTicks
    /\ ticks' = ticks + 1
    /\ LET scan == runScript(graph, winCustom, TRUE)
           new  == printNew(scan.matches, 1, seenSecrets, <<>>)
       IN  /\ response' = [matches |-> scan.matches, stats |-> statsOf(scan)]
           /\ seenSecrets' = new.seen
           /\ printed' = printed \o new.rows \o new.rows
           /\ finalStats' = statsOf(scan)
           /\ last' = passRecord("periodic", "ok", scan, new.rows)
           /\ okVer' = version
           /\ sumScanned' = sumScanned + scan.objectsScanned + scan.objectsScanned
    /\ UNCHANGED <<graph, custom, winCustom, ctxDone, pc, statsOut, version>>

Tick == TickUpTo(MaxTicks)

\* the same step in sessions long enough for three failed passes in a row
LongTick == TickUpTo(MaxStreakTicks)

\* case <-ctx.Done() (lines 978-989): print the final stats and return
Done ==
    /\ UNCHANGED <<registry, failStreak>>
    /\ pc = "loop"
    /\ ctxDone
    /\ statsOut' = Append(statsOut, finalStats)
    /\ pc' = "done"
    /\ UNCHANGED <<graph, custom, winCustom, ctxDone, seenSecrets, response, finalStats,
                   printed, ticks, version, last, okVer, sumScanned>>

\* func (m *ObjectMonitor) AddPattern(name, pattern, description string)
AddPattern ==
    /\ pc = "initial"
    /\ Len(registered.go) < Len(GoDefaults) + MaxRegs
    /\ \E name \in RegNames, src \in RegSources, description \in RegDescriptions :
          /\ patterns' = goMapSet(patterns, name, strPattern(src), description)
          /\ registered' = [registered EXCEPT !.go =
                                Append(@, registration(name, strPattern(src), description))]
    /\ UNCHANGED <<graph, custom, winCustom, ctxDone, pc, seenSecrets, response,
                   finalStats, printed, statsOut, ticks, version, last, okVer,
                   sumScanned, jsPatterns, failStreak>>

\* monitor.addPattern(name, pattern, description) in the page
addPattern ==
    /\ pc = "initial"
    /\ Len(registered.js) < Len(ScriptDefaults) + MaxRegs
    /\ \E name \in RegNames, description \in RegDescriptions,
          pattern \in {strPattern(src) : src \in RegSources}
                          \cup {regExp(src, "") : src \in RegSources} :
          /\ jsPatterns' = jsAddPattern(jsPatterns, name, pattern, description)
          /\ registered' = [registered EXCEPT !.js =
                                Append(@, registration(name, pattern, description))]
    /\ UNCHANGED <<graph, custom, winCustom, ctxDone, pc, seenSecrets, response,
                   finalStats, printed, statsOut, ticks, version, last, okVer,
                   sumScanned, patterns, failStreak>>

Next == PageSet \/ PageDelete \/ Timeout \/ InitialPass \/ Tick \/ Done

Spec == Init /\ [][Next]_vars

\* The scheduling main can rely on: the deadline passes (context.WithTimeout),
\* the immediate pass is run, and once the context is done the select takes
\* case <-ctx.Done() sooner or later (it picks among ready cases at random)
\* The registries under the calls their interfaces allow (main makes none
\* beyond the construction)
RegInit == Init /\ custom = <<>> /\ graph = GScenario

RegNext == AddPattern \/ addPattern

RegSpec == RegInit /\ [][RegNext]_vars

\* Sessions of up to MaxStreakTicks periodic passes, on two of the pages
StreakInit == Init /\ custom = <<>> /\ graph \in {GScenario, GKinds}

StreakNext == PageSet \/ PageDelete \/ Timeout \/ InitialPass \/ LongTick \/ Done

StreakSpec == StreakInit /\ [][StreakNext]_vars

FairSpec == Spec /\ WF_vars(Timeout) /\ WF_vars(InitialPass) /\ WF_vars(Done)

----------------------------------------------------------------------------
(* Properties *)

pair(m) == <<m.path, m.value>>

DefaultNames == {"AWS Access Key", "AWS Secret Key", "Private Key", "JWT Token", "API Key"}

\* a pass whose script ran to its end and whose result was parsed
Scanned == last.outcome = "ok"

\* ... and no page mutation since: graph is still the graph the pass saw
ScannedThis == Scanned /\ last.ver = version

(* C1: across all passes of a session each (path, value) finding is handed  *)
(* to the reporter at most once, and a successful pass over the graph the   *)
(* preceding successful pass saw, unchanged, reports no new finding.        *)
C1_ReportedOnceAndIdempotent ==
    /\ \A i, j \in 1..Len(printed) : i # j => pair(printed[i]) # pair(printed[j])
    /\ (Scanned /\ last.prevOk = last.ver) => last.admitted = <<>>

RECURSIVE firstOffers(_, _, _, _)

\* the matches, from the i-th, whose (path, value) pair is not in known and
\* not the pair of an earlier one
firstOffers(matches, i, known, rows) ==
    IF i > Len(matches) THEN rows
    ELSE IF pair(matches[i]) \notin known
        THEN firstOffers(matches, i + 1, known \cup {pair(matches[i])}, Append(rows, matches[i]))
    ELSE firstOffers(matches, i + 1, known, rows)

(* C2: a finding offered to the deduplication loop is admitted (printed)    *)
(* if and only if no earlier finding of the session had the same path and   *)
(* the same value; findings that differ in path or in value are both        *)
(* admitted.                                                                *)
C2_AdmittedIffNewPair ==
    Scanned => last.admitted = firstOffers(last.scan.matches, 1, last.offered, <<>>)

(* C3: when a custom literal is configured, no finding with a default       *)
(* pattern name is ever reported, in the immediate or in a periodic pass.   *)
C3_NoDefaultUnderCustom ==
    custom # <<>> => \A i \in 1..Len(printed) : printed[i].pattern \notin DefaultNames

\* the findings a custom literal calls for: one "Custom String" finding per
\* classified string that contains the literal, in traversal order
customFindings(classified, lit) ==
    LET has(c) == includes(c.value, lit)
        hits   == SelectSeq(classified, has)
    IN  [i \in 1..Len(hits) |->
            [pattern |-> "Custom String", path |-> hits[i].path, value |-> hits[i].value]]

(* C4: when a custom literal is configured, every pass produces a finding   *)
(* for a scanned string if and only if the string contains the literal      *)
(* (case-sensitive), and the finding's pattern name is "Custom String".     *)
C4_CustomIffContains ==
    (custom # <<>> /\ Scanned) => last.scan.matches = customFindings(last.scan.classified, custom)

PatternOrder == <<"AWS Access Key", "AWS Secret Key", "Private Key", "JWT Token">>

matchesPattern(name, v) ==
    CASE name = "AWS Access Key" -> reAccessKey(v)
      [] name = "AWS Secret Key" -> reSecretKey(v)
      [] name = "Private Key"    -> rePrivateKey(v)
      [] name = "JWT Token"      -> reJWT(v)

\* the positions in PatternOrder of the patterns that match v
hitsOf(v) == {k \in 1..Len(PatternOrder) : matchesPattern(PatternOrder[k], v)}

\* the findings the default patterns call for: for each classified string
\* that some pattern matches, one finding, naming the first such pattern
defaultFindings(classified) ==
    LET hit(c) == hitsOf(c.value) # {}
        hits   == SelectSeq(classified, hit)
        first(v) == PatternOrder[CHOOSE k \in hitsOf(v) : \A j \in hitsOf(v) : k <= j]
    IN  [i \in 1..Len(hits) |->
            [pattern |-> first(hits[i].value), path |-> hits[i].path, value |-> hits[i].value]]

(* C5: with default patterns, classifying one string in a pass yields at    *)
(* most one finding, which names the first pattern, in the fixed order of   *)
(* evaluation, that matches the string.                                     *)
C5_FirstMatchWins ==
    (custom = <<>> /\ Scanned) => last.scan.matches = defaultFindings(last.scan.classified)

\* a pass with default patterns reported a string that two patterns match
C5_Witness ==
    /\ custom = <<>>
    /\ Scanned
    /\ \E i \in 1..Len(last.scan.matches) :
          /\ Cardinality(hitsOf(last.scan.matches[i].value)) >= 2
          /\ last.scan.matches[i].pattern = "AWS Access Key"
          /\ reSecretKey(last.scan.matches[i].value)

\* the composites the members of o point to (skipping ignored names if avoid)
Succ(g, o, avoid) ==
    { g[o][i][2].o : i \in {k \in 1..Len(g[o]) :
                               /\ g[o][k][2].t = "obj"
                               /\ (avoid => g[o][k][1] \notin ignoredPaths)} }

RECURSIVE Reach(_, _, _)

Reach(g, S, avoid) ==
    LET more == S \cup UNION {Succ(g, o, avoid) : o \in S}
    IN  IF more = S THEN S ELSE Reach(g, more, avoid)

\* the identities reachable from the root
Reachable(g) == Reach(g, {Root}, FALSE)

\* ... by some route that passes through no ignored name
ReachableUnignored(g) == Reach(g, {Root}, TRUE)

\* the composite-valued members of the reachable identities
Edges(g) ==
    UNION { { <<o, k>> : k \in {i \in 1..Len(g[o]) : g[o][i][2].t = "obj"} } :
            o \in Reachable(g) }

(* C6: on every graph, cyclic ones included, a scan pass terminates (it     *)
(* makes at most one call of scanObject for the root and one per composite  *)
(* member of a reachable identity), each identity is entered at most once   *)
(* and objectsScanned is at most the number of reachable identities.        *)
C6_ScanBounded ==
    ScannedThis =>
        /\ last.scan.objectsScanned <= Cardinality(Reachable(graph))
        /\ last.scan.objectsScanned = Len(last.scan.entered)
        /\ \A i, j \in 1..Len(last.scan.entered) :
              i # j => last.scan.entered[i].obj # last.scan.entered[j].obj
        /\ last.scan.calls <= 1 + Cardinality(Edges(graph))

\* a pass scanned a graph with a self-loop on the root and a longer cycle
C6_Witness ==
    /\ ScannedThis
    /\ Root \in Succ(graph, Root, FALSE)
    /\ \E o \in Reachable(graph) \ {Root} : Root \in Succ(graph, o, FALSE)
    /\ last.scan.objectsScanned >= 2

NoSeparatorInNames(g) ==
    \A o \in 1..Len(g) : \A k \in 1..Len(g[o]) :
        \A c \in 1..Len(g[o][k][1]) : g[o][k][1][c] # "."

(* C7 as stated: no finding of a pass has a path with more than maxDepth    *)
(* segments.                                                                *)
C7_AtMostMaxDepthSegments ==
    Scanned => \A i \in 1..Len(last.scan.matches) :
                   Segments(last.scan.matches[i].path) <= MaxDepth

(* C7, amended: on a graph whose member names hold no separator, no         *)
(* finding of a pass has a path with more than maxDepth + 1 segments (the   *)
(* strings of a composite entered at depth maxDepth are classified).        *)
C7_AtMostMaxDepthPlusOne ==
    (ScannedThis /\ NoSeparatorInNames(graph)) =>
        \A i \in 1..Len(last.scan.matches) :
            Segments(last.scan.matches[i].path) <= MaxDepth + 1

\* a pass produced a finding maxDepth + 1 segments long, and the graph
\* holds a matching string one level deeper
C7_Witness ==
    /\ ScannedThis
    /\ NoSeparatorInNames(graph)
    /\ \E i \in 1..Len(last.scan.matches) :
          Segments(last.scan.matches[i].path) = MaxDepth + 1
    /\ Cardinality(Reachable(graph)) > last.scan.objectsScanned

(* C8: a composite reachable from the root only through ignored member      *)
(* names is never entered: it adds nothing to objectsScanned and none of    *)
(* its strings is classified, so it produces no finding.                    *)
C8_PrunedNeverEntered ==
    ScannedThis =>
        /\ \A i \in 1..Len(last.scan.entered) :
              last.scan.entered[i].obj \in ReachableUnignored(graph)
        /\ \A i \in 1..Len(last.scan.classified) :
              last.scan.classified[i].obj \in ReachableUnignored(graph)
        /\ last.scan.objectsScanned = Len(last.scan.entered)
        /\ \A i \in 1..Len(last.scan.matches) :
              \E k \in 1..Len(last.scan.classified) :
                  /\ last.scan.classified[k].path = last.scan.matches[i].path
                  /\ last.scan.classified[k].value = last.scan.matches[i].value

\* a pass scanned a graph in which a composite holding a matching string is
\* reachable through ignored names only, by two routes
C8_Witness ==
    /\ ScannedThis
    /\ last.scan.objectsScanned >= 2
    /\ \E o \in Reachable(graph) \ ReachableUnignored(graph) :
          /\ \E k \in 1..Len(graph[o]) :
                graph[o][k][2].t = "str" /\ reAccessKey(graph[o][k][2].s)
          /\ \E p \in ReachableUnignored(graph) \ {Root} : o \in Succ(graph, p, FALSE)

(* C9: the matchesFound printed at session end is the number of distinct    *)
(* (path, value) findings admitted during the session.                      *)
C9_MatchesFoundIsAdmitted ==
    pc = "done" => statsOut[Len(statsOut)].matchesFound = Len(printed)

(* C10: the objectsScanned printed at session end is the sum of the         *)
(* objectsScanned counts of all successful passes, the immediate pass       *)
(* included.                                                                *)
C10_ObjectsScannedIsSum ==
    pc = "done" => statsOut[Len(statsOut)].objectsScanned = sumScanned

(* C11: the session's running totals (finalStats, the totals printed at     *)
(* the end) never decrease from one pass to the next, also when the graph   *)
(* grows or shrinks between the passes.                                     *)
C11_TotalsNeverDecrease ==
    [][ /\ finalStats'.objectsScanned >= finalStats.objectsScanned
        /\ finalStats'.matchesFound >= finalStats.matchesFound ]_vars

(* C12: every session eventually prints its final statistics, whichever     *)
(* passes failed, the immediate pass included.                              *)
C12_EventuallyFinalStats == <>(statsOut # <<>>)

(* C13: a failed pass is not fatal: after a pass failed, the immediate one  *)
(* included, main is still in its ticker loop unless the context is done.   *)
C13_FailedPassNotFatal ==
    (last.outcome = "failed" /\ ~ctxDone) => pc = "loop"

(* C14: once the context is done main ends in a terminal state in which     *)
(* the final statistics have been printed exactly once; they are never      *)
(* printed twice.                                                           *)
C14_StatsExactlyOnce ==
    /\ Len(statsOut) <= 1
    /\ (ctxDone /\ pc \in {"done", "returned"}) => Len(statsOut) = 1

\* the rules the documentation lists beyond the scripts' four: a bare
\* 40-character secret-key-like token and a generic token of 32 or more
\* characters (the whole string is such a token)
bareToken40(v) == Len(v) = 40 /\ AllIn(v, 1, Len(v), Alnum \cup {"/", "+"})

genericToken32(v) == Len(v) >= 32 /\ AllIn(v, 1, Len(v), Alnum)

reportedAs(scan, path, name) ==
    \E i \in 1..Len(scan.matches) :
        scan.matches[i].path = path /\ scan.matches[i].pattern = name

(* C15: with default patterns a scanned string that is a bare 40-character  *)
(* token is reported as "AWS Secret Key", and one that matches only the     *)
(* generic rule (32 or more characters) is reported as "API Key".           *)
C15_FiveDefaultRules ==
    (custom = <<>> /\ Scanned) =>
        \A i \in 1..Len(last.scan.classified) :
            LET c == last.scan.classified[i]
            IN  /\ bareToken40(c.value) => reportedAs(last.scan, c.path, "AWS Secret Key")
                /\ (genericToken32(c.value) /\ ~bareToken40(c.value) /\ hitsOf(c.value) = {})
                       => reportedAs(last.scan, c.path, "API Key")

\* the rows printed so far for a (path, value)
rowsFor(path, value) ==
    {i \in 1..Len(printed) : printed[i].path = path /\ printed[i].value = value}

(* C16: in a session with a custom literal, a value the passes scan that    *)
(* contains the literal and also matches a default pattern is reported by   *)
(* the session exactly once, as "Custom String", and never under a default  *)
(* pattern's name.                                                          *)
C16_CustomLabelOnly ==
    (custom # <<>> /\ Scanned) =>
        \A i \in 1..Len(last.scan.classified) :
            LET c == last.scan.classified[i]
            IN  (includes(c.value, custom) /\ hitsOf(c.value) # {}) =>
                    /\ Cardinality(rowsFor(c.path, c.value)) = 1
                    /\ \A k \in rowsFor(c.path, c.value) : printed[k].pattern = "Custom String"

\* the latest registration of a name in a history of registrations
lastOf(log, name) ==
    log[CHOOSE i \in 1..Len(log) :
            /\ log[i].name = name
            /\ \A j \in (i + 1)..Len(log) : log[j].name # name]

RECURSIVE firstOrder(_, _, _)

\* the names of a history in the order of their first registration
firstOrder(log, i, seen) ==
    IF i > Len(log) THEN <<>>
    ELSE IF log[i].name \in seen THEN firstOrder(log, i + 1, seen)
    ELSE <<log[i].name>> \o firstOrder(log, i + 1, seen \cup {log[i].name})

\* the names of the injected registry as its Map enumerates them
jsNames == [i \in 1..Len(jsPatterns) |-> jsPatterns[i].name]

(* C17: each registry holds exactly one rule per registered name, with the  *)
(* pattern and description of the name's last registration; the rules are   *)
(* enumerated in the order of (first) registration; and that order is the   *)
(* order in which the scan's classification evaluates the rules.            *)
C17_RegistryOrderIsEvaluationOrder ==
    /\ DOMAIN patterns = {registered.go[i].name : i \in 1..Len(registered.go)}
    /\ \A n \in DOMAIN patterns :
          patterns[n] = [pattern |-> lastOf(registered.go, n).pattern,
                         description |-> lastOf(registered.go, n).description]
    /\ \A i, j \in 1..Len(jsPatterns) : i # j => jsPatterns[i].name # jsPatterns[j].name
    /\ \A i \in 1..Len(jsPatterns) :
          jsPatterns[i].value =
              [pattern |-> toRegExp(lastOf(registered.js, jsPatterns[i].name).pattern),
               description |-> lastOf(registered.js, jsPatterns[i].name).description]
    /\ jsNames = firstOrder(registered.js, 1, {})
    /\ PatternOrder = jsNames

RECURSIVE ReachWithin(_, _, _)

\* the identities some chain of at most d member hops from S leads to,
\* passing through no ignored name
ReachWithin(g, S, d) ==
    IF d = 0 THEN S
    ELSE ReachWithin(g, S \cup UNION {Succ(g, o, TRUE) : o \in S}, d - 1)

(* C18: in a successful pass every string member of every composite within  *)
(* maxDepth member hops of the root (through no ignored name) is handed to  *)
(* checkValue, whatever the enumeration order and the other routes.         *)
C18_AllStringsWithinDepthClassified ==
    ScannedThis =>
        \A o \in ReachWithin(graph, {Root}, MaxDepth) :
            \A k \in 1..Len(graph[o]) :
                graph[o][k][2].t = "str" =>
                    \E i \in 1..Len(last.scan.classified) :
                        /\ last.scan.classified[i].obj = o
                        /\ last.scan.classified[i].value = graph[o][k][2].s

\* a row was printed for this finding: same path, value and pattern name
reported(m) ==
    \E i \in 1..Len(printed) :
        /\ printed[i].path = m.path
        /\ printed[i].value = m.value
        /\ printed[i].pattern = m.pattern

(* C19: a periodic pass scans the whole graph from the root under the rule  *)
(* set of the immediate pass: when a successful periodic pass follows a     *)
(* successful earlier pass and a change of the page, every finding that     *)
(* the immediate pass's script yields on the graph and that no earlier pass *)
(* offered (a value that appeared since) has been reported.                 *)
C19_LateValueReportedSameRules ==
    (ScannedThis /\ last.script = "periodic" /\ last.prevOk >= 0 /\ version > 0) =>
        LET immediate == runScript(graph, winCustom, FALSE)
        IN  \A i \in 1..Len(immediate.matches) :
                pair(immediate.matches[i]) \notin last.offered
                    => reported(immediate.matches[i])

\* the graph without the members whose read throws
withoutThrowers(g) ==
    LET reads(member) == member[2].t # "throw"
    IN  [o \in 1..Len(g) |-> SelectSeq(g[o], reads)]

(* C20: a member whose read throws is skipped and nothing else: the pass    *)
(* enters the same composites, classifies the same strings and yields the   *)
(* same matches and stats as on the graph without the throwing members.     *)
C20_ThrowingMemberSkipped ==
    ScannedThis =>
        last.scan = runScript(withoutThrowers(graph), winCustom, last.script = "periodic")

\* a pass scanned a composite in which a throwing member comes before a
\* string that the pass reported
C20_Witness ==
    /\ ScannedThis
    /\ \E o \in last.scan.visited : \E i, k \in 1..Len(graph[o]) :
          /\ i < k
          /\ graph[o][i][2].t = "throw"
          /\ graph[o][k][2].t = "str"
          /\ \E j \in 1..Len(last.scan.matches) :
                last.scan.matches[j].value = graph[o][k][2].s

(* C21: once the context is done while main waits in its select, main's     *)
(* next step is the terminal one: no pass is started after the deadline,    *)
(* also when a tick is pending at the same moment.                          *)
C21_DeadlineThenTerminal ==
    [][ (pc = "loop" /\ ctxDone) => (pc' = "done" /\ ticks' = ticks) ]_vars

\* main has written something other than a finding's row or the box of the
\* two totals
degradedSurfaced ==
    \/ \E i \in 1..Len(printed) : printed[i].pattern \notin DefaultNames \cup {"Custom String"}
    \/ \E i \in 1..Len(statsOut) : DOMAIN statsOut[i] # {"objectsScanned", "matchesFound"}

(* C22: when three or more passes in a row have failed, a degraded-session  *)
(* signal has been surfaced to the caller by the time the session ends.     *)
C22_DegradedSignalSurfaced ==
    (pc = "done" /\ failStreak >= 3) => degradedSurfaced

\* the keys of a sequence of rows
keysOf(rows) == {secretKey(rows[i]) : i \in 1..Len(rows)}

(* C23: passes do not overlap: seenSecrets, the rows printed, response and  *)
(* finalStats change only in the step of one pass, which deduplicates       *)
(* against the seenSecrets the passes before it left and reports its new    *)
(* findings before the next pass starts; so seenSecrets is always the set   *)
(* of the keys of the rows printed, each printed once.                      *)
C23_PassesInSequence ==
    [][ /\ seenSecrets' = keysOf(printed')
        /\ Cardinality(seenSecrets') = Len(printed')
        /\ (<<seenSecrets, printed, response, finalStats>>'
               # <<seenSecrets, printed, response, finalStats>>) =>
              /\ \/ pc = "initial" /\ pc' = "loop"
                 \/ pc = "loop" /\ ticks' = ticks + 1
              /\ printed' = printed \o last'.admitted
              /\ seenSecrets' = seenSecrets \cup keysOf(last'.admitted)
              /\ keysOf(last'.admitted) \cap seenSecrets = {} ]_vars

\* a periodic pass reported new findings after an earlier pass had reported
\* its own
C23_Witness ==
    /\ Scanned
    /\ last.script = "periodic"
    /\ last.prevOk >= 0
    /\ last.admitted # <<>>
    /\ Len(printed) > Len(last.admitted)

RECURSIVE IsSubseq(_, _)

\* a is b with some elements left out, the order kept
IsSubseq(a, b) ==
    IF a = <<>> THEN TRUE
    ELSE IF b = <<>> THEN FALSE
    ELSE IF Head(a) = Head(b) THEN IsSubseq(Tail(a), Tail(b))
    ELSE IsSubseq(a, Tail(b))

(* C24: the findings a pass newly reports are reported in the order in      *)
(* which the traversal produced them, after every finding reported by an    *)
(* earlier pass, and none of them was produced by an earlier pass: the rows *)
(* printed are in first-seen order.                                         *)
C24_ReportedInFirstSeenOrder ==
    /\ IsSubseq(last.admitted, last.scan.matches)
    /\ Len(last.admitted) <= Len(printed)
    /\ SubSeq(printed, Len(printed) - Len(last.admitted) + 1, Len(printed)) = last.admitted
    /\ \A i \in 1..Len(last.admitted) : pair(last.admitted[i]) \notin last.offered

\* a periodic pass reported two or more new findings and left out a match
\* already reported by an earlier pass
C24_Witness ==
    /\ Scanned
    /\ last.script = "periodic"
    /\ Len(last.admitted) >= 2
    /\ Len(last.admitted) < Len(last.scan.matches)
    /\ Len(printed) > Len(last.admitted)

(* C25: seenSecrets only grows: every step leaves it equal to or a superset *)
(* of what it was, and the keys a step adds are exactly the keys of the     *)
(* rows the step prints, one row per key; no key is ever removed.           *)
C25_SeenKeysOnlyGrow ==
    [][ /\ seenSecrets \subseteq seenSecrets'
        /\ Len(printed') >= Len(printed)
        /\ SubSeq(printed', 1, Len(printed)) = printed
        /\ seenSecrets' \ seenSecrets
               = keysOf(SubSeq(printed', Len(printed) + 1, Len(printed')))
        /\ Cardinality(seenSecrets' \ seenSecrets) = Len(printed') - Len(printed) ]_vars

\* a pass added keys to a seenSecrets that held keys already, and found a
\* match whose key was there
C25_Witness ==
    /\ last.admitted # <<>>
    /\ Cardinality(seenSecrets) > Len(last.admitted)
    /\ \E i \in 1..Len(last.scan.matches) :
          /\ pair(last.scan.matches[i]) \in last.offered
          /\ secretKey(last.scan.matches[i]) \in seenSecrets \ keysOf(last.admitted)

(* C26: a periodic pass that fails (evaluation error or unparsable result)  *)
(* leaves seenSecrets, the parsed response and finalStats as they were and  *)
(* prints nothing.                                                          *)
C26_FailedPassChangesNothing ==
    [][ (pc = "loop" /\ ticks' = ticks + 1 /\ last'.outcome = "failed") =>
            UNCHANGED <<seenSecrets, response, finalStats, printed, statsOut>> ]_vars

\* a periodic pass failed in a session that had keys and totals to lose
C26_Witness ==
    /\ last.script = "periodic"
    /\ last.outcome = "failed"
    /\ seenSecrets # {}
    /\ finalStats.objectsScanned > 0
    /\ response.stats # ZeroStats

\* the position in entered of the composite o (0 when it was not entered)
entryOf(scan, o) ==
    IF \E i \in 1..Len(scan.entered) : scan.entered[i].obj = o
        THEN CHOOSE i \in 1..Len(scan.entered) : scan.entered[i].obj = o
    ELSE 0

\* the proper prefixes of a path that end before a separator
properPrefixes(path) ==
    {SubSeq(path, 1, d - 1) : d \in {i \in 1..Len(path) : path[i] = "."}}

\* the structure of a pass's paths: composites are entered at depths up to
\* maxDepth; a finding's path is the entry path of the composite holding
\* the string, then the member's name; it has at most maxDepth + 1
\* segments; each proper prefix is the path of a composite entered no
\* later than the one holding the string
pathsFollowEntries(g, scan) ==
    /\ \A i \in 1..Len(scan.entered) : scan.entered[i].depth <= MaxDepth
    /\ \A i \in 1..Len(scan.matches) :
          LET m == scan.matches[i]
          IN  /\ Segments(m.path) <= MaxDepth + 1
              /\ \E c \in 1..Len(scan.classified) :
                    LET o == scan.classified[c].obj
                        e == entryOf(scan, o)
                    IN  /\ scan.classified[c].path = m.path
                        /\ scan.classified[c].value = m.value
                        /\ e > 0
                        /\ \E k \in 1..Len(g[o]) :
                              /\ g[o][k][2] = Str(m.value)
                              /\ m.path = IF scan.entered[e].path = <<>>
                                              THEN g[o][k][1]
                                              ELSE scan.entered[e].path \o <<".">> \o g[o][k][1]
                        /\ \A pre \in properPrefixes(m.path) :
                              \E a \in 1..e : scan.entered[a].path = pre

(* C27 as stated: on every graph, every pass has that structure of paths.   *)
C27_PathsFollowEntries ==
    ScannedThis => pathsFollowEntries(graph, last.scan)

(* C27, amended: on a graph whose member names hold no separator, every     *)
(* composite is entered at a depth of at most maxDepth, every finding's     *)
(* path is its composite's entry path followed by the member name, has at   *)
(* most maxDepth + 1 segments, and each of its proper prefixes is the path  *)
(* of a composite entered earlier in the pass.                              *)
C27_PathsFollowEntriesPlainNames ==
    (ScannedThis /\ NoSeparatorInNames(graph)) => pathsFollowEntries(graph, last.scan)

\* a pass entered a composite at depth maxDepth and reported a string of it
C27_Witness ==
    /\ ScannedThis
    /\ NoSeparatorInNames(graph)
    /\ \E e \in 1..Len(last.scan.entered) :
          /\ last.scan.entered[e].depth = MaxDepth
          /\ \E i \in 1..Len(last.scan.matches) :
                /\ last.scan.entered[e].path \in properPrefixes(last.scan.matches[i].path)
                /\ Cardinality(properPrefixes(last.scan.matches[i].path)) = MaxDepth

NoColonInNames(g) ==
    \A o \in 1..Len(g) : \A k \in 1..Len(g[o]) :
        \A c \in 1..Len(g[o][k][1]) : g[o][k][1][c] # ":"

====
